---- MODULE Spec2Model ----
(***************************************************************************)
(* State-machine model of the allora-mdk worker:                           *)
(*   - LstmModel.train / inference / forecast (models/lstm/model.py)       *)
(*   - CoingeckoDataFetcher (data/coingecko_data_fetcher.py)               *)
(*   - DataFetcher for Tiingo (data/tiingo_data_fetcher.py)                *)
(*   - the GET and POST endpoints (endpoints/get/*.py, endpoints/post)     *)
(*   - load_model_from_config (utils/common.py)                            *)
(*                                                                         *)
(* Real numbers are kept exact as fixed-point integers: a scaled value v   *)
(* in [0,1] is stored as v * Denom, an unscaled price x as x * Denom.      *)
(* Floating-point rounding is not modelled.                                *)
(***************************************************************************)
EXTENDS Integers, Sequences, FiniteSets, TLC

\* ---------------------------------------------------------------- bounds
MaxN == 3           \* longest resampled input table (rows)
MaxPrice == 2       \* close prices are drawn from 1..MaxPrice
MaxTimeSteps == 2   \* largest window length (config.time_steps / time_steps)
MaxSteps == 2       \* largest `steps` argument of forecast
Epochs == 4         \* self.config.epochs
EarlyStoppingPatience == 2   \* self.config.early_stopping_patience

\* ------------------------------------------------------- pure helpers
RECURSIVE Fact(_)
Fact(n) == IF n <= 1 THEN 1 ELSE n * Fact(n - 1)

\* Fixed-point denominator: every (x - min) / (max - min) with prices in
\* 1..MaxPrice, and the value 0.5, is an integer multiple of 1/Denom.
Denom == 2 * Fact(MaxPrice)

Min2(a, b) == IF a <= b THEN a ELSE b

SeqMin(s) == CHOOSE x \in {s[k] : k \in 1..Len(s)} : \A k \in 1..Len(s) : x <= s[k]
SeqMax(s) == CHOOSE x \in {s[k] : k \in 1..Len(s)} : \A k \in 1..Len(s) : x >= s[k]

Last(s) == s[Len(s)]

\* Python's None for the hidden state and for the time_steps argument.
None == << >>

\* ------------------------------------------------------ input domains
\* A resampled table: dates are the resampling bins 1..N, close the column.
Tables == UNION {[1..n -> 1..MaxPrice] : n \in 0..MaxN}
TimeStepsArgs == {None} \cup {<<t>> : t \in 1..MaxTimeSteps}
\* Scaled outputs the regression function may produce: 0, 0.5 and 1.
Preds == {0, Denom \div 2, Denom}
\* Values of config.validation_split: 0.2 and 0.5.
ValidationSplits == {<<1, 5>>, <<1, 2>>}

VARIABLES
    config_time_steps,  \* self.config.time_steps
    op,                 \* which LstmModel method is running
    pc,                 \* position inside it
    close,              \* input_data["close"] after resampling
    req_time_steps,     \* time_steps as requested (argument or config)
    time_steps,         \* time_steps after min(time_steps, len(...))
    scaler,             \* fitted MinMaxScaler bounds, None before fit
    x_test,             \* windows produced by the sliding window
    inputs,             \* inference: the growing tensor of windows
    last_sequence,      \* forecast: the current window
    hidden_state,       \* inference: carried recurrent state
    predictions,        \* the predictions list of the running method
    i,                  \* loop index of the rollout
    steps,              \* forecast: requested number of steps
    modelCalls,         \* calls of self.model made by the running method
    df,                 \* returned DataFrame (sequence of rows)
    error               \* exception raised by the method, "none" if none

VARIABLES
    validation_split,   \* self.config.validation_split as <<num, den>>
    train_data,         \* train: windows of _prepare_data
    x_train,            \* train: training windows
    x_val,              \* train: validation windows
    y_train,            \* train: training targets
    y_val,              \* train: validation targets
    epoch,              \* train: epochs run so far
    best_val_loss,      \* train: best validation loss so far
    patience_counter,   \* train: epochs since the last improvement
    val_losses,         \* train: the validation loss of every epoch run
    stopped_epoch,      \* train: epoch printed by early stopping, 0 if none
    artifact            \* what self.save() has written, None before

trainLocals == <<validation_split, train_data, x_train, x_val, y_train, y_val,
                 epoch, best_val_loss, patience_counter, val_losses,
                 stopped_epoch>>

trainVars == <<trainLocals, artifact>>

lstmVars == <<config_time_steps, op, pc, close, req_time_steps, time_steps,
              scaler, x_test, inputs, last_sequence, hidden_state,
              predictions, i, steps, modelCalls, df, error, trainVars>>

VARIABLES
    cached_data,        \* CoingeckoDataFetcher.cached_data
    last_fetch_time,    \* CoingeckoDataFetcher.last_fetch_time
    cache_duration,     \* CoingeckoDataFetcher.cache_duration
    cg_now,             \* time.time()
    cg_call             \* the running / last call of fetch_real_time_data

cgVars == <<cached_data, last_fetch_time, cache_duration, cg_now, cg_call>>

VARIABLES
    tg_files,           \* CSV files in DataFetcher.cache_folder
    tg_call             \* the running / last call of a Tiingo fetch

tgVars == <<tg_files, tg_call>>

VARIABLES
    active_model,       \* app.state.active_model
    infer_token,        \* os.environ["INFER_TOKEN"]
    model_files,        \* names with a package/<name>/model.py
    artifacts,          \* names with a trained artifact in save_dir
    http_call,          \* the running / last HTTP request and its response
    instances,          \* model instances constructed so far
    loader_call         \* the running / last call of load_model_from_config

httpVars == <<active_model, infer_token, model_files, artifacts, http_call,
              instances, loader_call>>

vars == <<lstmVars, cgVars, tgVars, httpVars>>

nonLstmVars == <<cgVars, tgVars, httpVars>>

\* --------------------------------------------------------- MinMaxScaler
\* sklearn replaces a zero data range by 1 before dividing.
HandleZerosInScale(r) == IF r = 0 THEN 1 ELSE r

Fit(col) == [data_min |-> SeqMin(col), data_max |-> SeqMax(col)]

DataRange(sc) == HandleZerosInScale(sc.data_max - sc.data_min)

\* Mutant: transform divides by the range without subtracting data_min.
TransformNoShiftBug(sc, x) == (x * Denom) \div DataRange(sc)

\* transform: (x - data_min) / range, in units of 1/Denom
Transform(sc, x) == ((x - sc.data_min) * Denom) \div DataRange(sc)

\* inverse_transform: p * range + data_min, in units of 1/Denom
InverseTransformMaxBug(sc, p) == p * DataRange(sc) + sc.data_max * Denom
InverseTransform(sc, p) == p * DataRange(sc) + sc.data_min * Denom

FitTransform(col) == [k \in 1..Len(col) |-> Transform(Fit(col), col[k])]

\* ------------------------------------------------------------ windowing
\* Mutant: strict comparison, so N = time_steps takes the sliding branch.
WindowingStrictBug(scaled, ts) ==
    IF Len(scaled) < ts
    THEN << SubSeq(scaled, 1, Min2(ts, Len(scaled))) >>
    ELSE [k \in 1..(Len(scaled) - ts) |-> SubSeq(scaled, k, k + ts - 1)]

\* Mutant: the windows start one element late.
WindowingShiftedBug(scaled, ts) ==
    IF Len(scaled) <= ts
    THEN << SubSeq(scaled, 1, Min2(ts, Len(scaled))) >>
    ELSE [k \in 1..(Len(scaled) - ts) |-> SubSeq(scaled, k + 1, k + ts)]

\* inference, lines 188-195: x_test
Windowing(scaled, ts) ==
    IF Len(scaled) <= ts
    THEN << SubSeq(scaled, 1, Min2(ts, Len(scaled))) >>
    ELSE [k \in 1..(Len(scaled) - ts) |-> SubSeq(scaled, k, k + ts - 1)]

\* --------------------------------------------------- regression function
\* LSTM.forward: the state returned is a new state; it is abstracted by the
\* number of windows folded into it (None -> zeros -> 1 window, ...).
Forward(h) == IF h = None THEN <<1>> ELSE <<h[1] + 1>>


\* ============================================================ LstmModel
LstmIdle ==
    /\ op = "none" /\ pc = "idle"
    /\ close = << >> /\ req_time_steps = 0 /\ time_steps = 0
    /\ scaler = None /\ x_test = << >> /\ inputs = << >>
    /\ last_sequence = << >> /\ hidden_state = None
    /\ predictions = << >> /\ i = 0 /\ steps = 0
    /\ modelCalls = << >> /\ df = << >> /\ error = "none"
    /\ validation_split = <<0, 1>> /\ train_data = << >>
    /\ x_train = << >> /\ x_val = << >> /\ y_train = << >> /\ y_val = << >>
    /\ epoch = 0 /\ best_val_loss = 0 /\ patience_counter = 0
    /\ val_losses = << >> /\ stopped_epoch = 0

\* The index of the resampled table: the resampling bins, strictly increasing.
Dates(col) == [k \in 1..Len(col) |-> k]

\* Mutant: the rollout starts from the state the previous rollout left.
InitialHiddenStateKeptBug(left) == left

\* inference, lines 217-219: the rollout starts with no carried state,
\* whatever state `left` an earlier rollout ended with.
InitialHiddenState(left) == None

\* inference raises: nothing is returned.
InferenceRaise(data, req, err) ==
    /\ op' = "inference" /\ pc' = "done"
    /\ close' = data /\ req_time_steps' = req
    /\ error' = err
    /\ UNCHANGED <<time_steps, scaler, x_test, inputs, hidden_state,
                   predictions, i, df>>

\* inference, lines 162-219: resample, fit the scaler, window, set up the
\* rollout.  `fitRejects`: MinMaxScaler.fit_transform on a zero-row column
\* is library behaviour; both of its outcomes are kept (it raises
\* ValueError, or it returns an empty array).
InferenceBegin(data, tsArg, fitRejects) ==
    /\ pc = "idle"
    /\ LET req    == IF tsArg = None THEN config_time_steps ELSE tsArg[1]
           scaled == FitTransform(data)
           ts     == Min2(req, Len(scaled))
           xs     == Windowing(scaled, ts)
       IN  IF Len(data) = 0 /\ fitRejects
           THEN InferenceRaise(data, req, "ValueError")
           ELSE IF Len(xs) = 0
           THEN InferenceRaise(data, req, "ValueError")
           ELSE /\ op' = "inference"
                /\ pc' = IF Len(xs) = 1 THEN "rollout_single" ELSE "rollout_multi"
                /\ close' = data
                /\ req_time_steps' = req
                /\ time_steps' = ts
                /\ scaler' = IF Len(data) = 0 THEN None ELSE Fit(data)
                /\ x_test' = xs
                /\ inputs' = xs
                /\ hidden_state' = InitialHiddenState(hidden_state)
                /\ predictions' = << >>
                /\ i' = 0
                /\ UNCHANGED <<df, error>>
    /\ UNCHANGED <<trainVars, nonLstmVars>>
    /\ UNCHANGED <<config_time_steps, last_sequence, steps, modelCalls>>

\* One pass of a rollout loop body of inference (lines 228-251 and 256-276
\* are the same statements): call the model on the last window with the
\* carried state, record the prediction, append the shifted window.
\* Mutant: the window is extended, its oldest element is not dropped.
RolloutBodyNoDropBug(p) ==
    /\ modelCalls' = Append(modelCalls,
                        [window |-> Last(inputs), hidden_in |-> hidden_state,
                         hidden_out |-> Forward(hidden_state), out |-> p])
    /\ hidden_state' = Forward(hidden_state)
    /\ predictions' = Append(predictions, p)
    /\ inputs' = Append(inputs, Append(Last(inputs), p))
    /\ i' = i + 1

\* Mutant: pass i evaluates the i-th historical window.
RolloutBodyHistoricalBug(p) ==
    /\ modelCalls' = Append(modelCalls,
                        [window |-> inputs[Min2(i + 1, Len(inputs))],
                         hidden_in |-> hidden_state,
                         hidden_out |-> Forward(hidden_state), out |-> p])
    /\ hidden_state' = Forward(hidden_state)
    /\ predictions' = Append(predictions, p)
    /\ inputs' = Append(inputs, Append(Tail(Last(inputs)), p))
    /\ i' = i + 1

RolloutBody(p) ==
    /\ modelCalls' = Append(modelCalls,
                        [window |-> Last(inputs), hidden_in |-> hidden_state,
                         hidden_out |-> Forward(hidden_state), out |-> p])
    /\ hidden_state' = Forward(hidden_state)
    /\ predictions' = Append(predictions, p)
    /\ inputs' = Append(inputs, Append(Tail(Last(inputs)), p))
    /\ i' = i + 1

\* inference, lines 224-251: one sequence, predict for every row.
InferenceStepSingle(p) ==
    /\ pc = "rollout_single"
    /\ i < Len(close)
    /\ RolloutBody(p)
    /\ UNCHANGED <<trainVars, nonLstmVars>>
    /\ UNCHANGED <<config_time_steps, op, pc, close, req_time_steps, time_steps,
                   scaler, x_test, last_sequence, steps, df, error>>

\* inference, lines 254-276: several sequences.
InferenceStepMulti(p) ==
    /\ pc = "rollout_multi"
    /\ i < Len(close) - time_steps
    /\ RolloutBody(p)
    /\ UNCHANGED <<trainVars, nonLstmVars>>
    /\ UNCHANGED <<config_time_steps, op, pc, close, req_time_steps, time_steps,
                   scaler, x_test, last_sequence, steps, df, error>>

\* np.pad(..., "edge"): repeat the last value up to length n.
PadZeroBug(s, n) ==
    [k \in 1..(IF Len(s) < n THEN n ELSE Len(s)) |->
        IF k <= Len(s) THEN s[k] ELSE 0]

PadEdge(s, n) ==
    [k \in 1..(IF Len(s) < n THEN n ELSE Len(s)) |->
        IF k <= Len(s) THEN s[k] ELSE Last(s)]

\* The DataFrame returned by inference, lines 288-306.
PredictionFrame(col, sc, preds) ==
    LET inv    == [k \in 1..Len(preds) |-> InverseTransform(sc, preds[k])]
        padded == PadEdge(inv, Len(col))
        dates  == SubSeq(Dates(col), 1, Min2(Len(padded), Len(col)))
    IN  [k \in 1..Len(padded) |-> [date |-> dates[k], prediction |-> padded[k]]]

\* Mutant: an empty prediction list is returned as an empty table.
InferenceEndSilentBug ==
    /\ pc \in {"rollout_single", "rollout_multi"}
    /\ i >= (IF pc = "rollout_single" THEN Len(close) ELSE Len(close) - time_steps)
    /\ pc' = "done"
    /\ IF predictions # << >>
       THEN /\ df' = PredictionFrame(close, scaler, predictions)
            /\ error' = "none"
       ELSE /\ df' = << >>
            /\ error' = "none"
    /\ UNCHANGED <<trainVars, nonLstmVars>>
    /\ UNCHANGED <<config_time_steps, op, close, req_time_steps, time_steps,
                   scaler, x_test, inputs, last_sequence, hidden_state,
                   predictions, i, steps, modelCalls>>

\* inference, lines 278-308: inverse scaling, padding, result table.
InferenceEnd ==
    /\ pc \in {"rollout_single", "rollout_multi"}
    /\ i >= (IF pc = "rollout_single" THEN Len(close) ELSE Len(close) - time_steps)
    /\ pc' = "done"
    /\ IF predictions # << >>
       THEN /\ df' = PredictionFrame(close, scaler, predictions)
            /\ error' = "none"
       ELSE /\ df' = << >>
            /\ error' = "ValueError"
    /\ UNCHANGED <<trainVars, nonLstmVars>>
    /\ UNCHANGED <<config_time_steps, op, close, req_time_steps, time_steps,
                   scaler, x_test, inputs, last_sequence, hidden_state,
                   predictions, i, steps, modelCalls>>

\* Mutant: exactly time_steps rows are rejected too.
InsufficientDataInclusiveBug(n, ts) == n <= ts

\* forecast, line 325: fewer rows than one window needs.
InsufficientData(n, ts) == n < ts

\* forecast, lines 311-339: resample, length check, fit, last window.
ForecastBegin(n, data) ==
    /\ pc = "idle"
    /\ op' = "forecast"
    /\ close' = data
    /\ steps' = n
    /\ req_time_steps' = config_time_steps
    /\ IF InsufficientData(Len(data), config_time_steps)
       THEN /\ pc' = "done"
            /\ error' = "ValueError"
            /\ UNCHANGED <<time_steps, scaler, last_sequence, predictions, i>>
       ELSE /\ pc' = "forecast_loop"
            /\ time_steps' = config_time_steps
            /\ scaler' = Fit(data)
            /\ last_sequence' = SubSeq(FitTransform(data),
                                       Len(data) - config_time_steps + 1, Len(data))
            /\ predictions' = << >>
            /\ i' = 0
            /\ UNCHANGED error
    /\ UNCHANGED <<trainVars, nonLstmVars>>
    /\ UNCHANGED <<config_time_steps, x_test, inputs, hidden_state, modelCalls, df>>

\* forecast, lines 342-356: one pass of the loop.  The model is called
\* without a hidden state and the state it returns is dropped (`_`).
ForecastStep(p) ==
    /\ pc = "forecast_loop"
    /\ i < steps
    /\ modelCalls' = Append(modelCalls,
                        [window |-> last_sequence, hidden_in |-> None,
                         hidden_out |-> Forward(None), out |-> p])
    /\ predictions' = Append(predictions, InverseTransform(scaler, p))
    /\ last_sequence' = Append(Tail(last_sequence), p)
    /\ i' = i + 1
    /\ UNCHANGED <<trainVars, nonLstmVars>>
    /\ UNCHANGED <<config_time_steps, op, pc, close, req_time_steps, time_steps,
                   scaler, x_test, inputs, hidden_state, steps, df, error>>

\* pd.date_range(start, periods, freq): periods dates from start on.
DateRange(start, periods) == [k \in 1..periods |-> start + (k - 1)]

\* pd.DataFrame of two columns: the lengths must agree.
ForecastFrame(dates, preds) ==
    [k \in 1..Len(preds) |-> [date |-> dates[k], prediction |-> preds[k]]]

\* Mutant: the starting date is not excluded from the forecast dates.
ForecastDatesKeepStartBug(start, n) == DateRange(start, n + 1)

\* forecast, lines 364-370: the dates after the last known one.
ForecastDates(start, n) == Tail(DateRange(start, n + 1))

\* forecast, lines 363-380: dates and result table.
ForecastEnd ==
    /\ pc = "forecast_loop"
    /\ i >= steps
    /\ pc' = "done"
    /\ LET dates == ForecastDates(Last(Dates(close)), steps)
       IN  IF Len(dates) = Len(predictions)
           THEN /\ df' = ForecastFrame(dates, predictions)
                /\ error' = "none"
           ELSE /\ df' = << >>
                /\ error' = "ValueError"
    /\ UNCHANGED <<trainVars, nonLstmVars>>
    /\ UNCHANGED <<config_time_steps, op, close, req_time_steps, time_steps,
                   scaler, x_test, inputs, last_sequence, hidden_state,
                   predictions, i, steps, modelCalls>>

\* ------------------------------------------------------- LstmModel.train
\* Python slices with a negated length: s[:-v] and s[-v:].  -0 is 0, so
\* s[:-0] is s[:0] (nothing) and s[-0:] is s[0:] (everything).
SliceToMinus(s, v) == IF v = 0 THEN << >> ELSE SubSeq(s, 1, Len(s) - v)
SliceFromMinus(s, v) == IF v = 0 THEN s ELSE SubSeq(s, Len(s) - v + 1, Len(s))

\* _prepare_data, lines 382-391, on a column of N values.  With N = 0 the
\* loop runs once with i = -1 and appends data[0:-1], the empty slice.
PrepareData(data, ts) ==
    LET t == IF Len(data) <= ts THEN Len(data) - 1 ELSE ts
    IN  IF Len(data) = 0
        THEN << << >> >>
        ELSE [k \in 1..(Len(data) - t) |-> SubSeq(data, k, k + t - 1)]

\* y[:, -1]: the last element of every window.
LastColumn(ws) == [k \in 1..Len(ws) |-> Last(ws[k])]

\* Tables train is called on: long enough for a training pair and a
\* validation pair to exist.
MaxTrainN == 4
TrainTables == UNION {[1..n -> 1..MaxPrice] : n \in 0..MaxTrainN}

\* Mutant: every window is paired with itself instead of its successor.
TargetWindowsSameBug(td) == SubSeq(td, 1, Len(td) - 1)

\* line 100: train_data[1:], for each window the one that follows it.
TargetWindows(td) == Tail(td)

\* int(len(x_train) * validation_split), line 103
ValSize(n, split) == (n * split[1]) \div split[2]

\* float("inf"), line 119; a NaN loss compares like it (never below best).
Inf == 3
\* Finite validation losses an epoch may produce.
Losses == {1, 2}

\* train raises before the loop: nothing is saved.
TrainRaise(data, split, err) ==
    /\ op' = "train" /\ pc' = "done"
    /\ close' = data /\ validation_split' = split
    /\ error' = err

\* train, lines 72-120: resample, fit, window, pair, split, build the
\* loader.  `fitRejects` as in inference.  `loaderRejects`: a shuffling
\* DataLoader over zero samples is library behaviour; both outcomes are
\* kept (it raises ValueError, or it yields no batch).
TrainBegin(data, split, fitRejects, loaderRejects) ==
    /\ pc = "idle"
    /\ LET scaled == FitTransform(data)
           td     == PrepareData(scaled, config_time_steps)
           xs     == SubSeq(td, 1, Len(td) - 1)
           ys     == TargetWindows(td)
           v      == ValSize(Len(xs), split)
       IN  IF Len(data) = 0 /\ fitRejects
           THEN /\ TrainRaise(data, split, "ValueError")
                /\ UNCHANGED <<scaler, train_data, x_train, x_val, y_train,
                               y_val, best_val_loss>>
           ELSE IF Len(td[1]) = 0
           THEN \* y_train[:, -1] on windows of width 0
                /\ TrainRaise(data, split, "IndexError")
                /\ scaler' = IF Len(data) = 0 THEN None ELSE Fit(data)
                /\ train_data' = td
                /\ x_train' = SliceToMinus(xs, v)
                /\ x_val' = SliceFromMinus(xs, v)
                /\ UNCHANGED <<y_train, y_val, best_val_loss>>
           ELSE /\ close' = data /\ validation_split' = split
                /\ op' = "train"
                /\ scaler' = Fit(data)
                /\ train_data' = td
                /\ x_train' = SliceToMinus(xs, v)
                /\ x_val' = SliceFromMinus(xs, v)
                /\ y_train' = LastColumn(SliceToMinus(ys, v))
                /\ y_val' = LastColumn(SliceFromMinus(ys, v))
                /\ IF SliceToMinus(xs, v) = << >> /\ loaderRejects
                   THEN /\ pc' = "done" /\ error' = "ValueError"
                        /\ UNCHANGED best_val_loss
                   ELSE /\ pc' = "train_loop" /\ best_val_loss' = Inf
                        /\ UNCHANGED error
    /\ UNCHANGED <<epoch, patience_counter, val_losses, stopped_epoch, artifact>>
    /\ UNCHANGED nonLstmVars
    /\ UNCHANGED <<config_time_steps, req_time_steps, time_steps, x_test,
                   inputs, last_sequence, hidden_state, predictions, i, steps,
                   modelCalls, df>>

\* Mutant: a loss equal to the best one counts as an improvement.
ImprovesNonStrictBug(val_loss, best) == val_loss <= best

\* line 149: the validation loss strictly improves on the best one.
Improves(val_loss, best) == val_loss < best

\* train, lines 123-156: one epoch; `val_loss` is the validation loss it
\* measures (NaN, written Inf, when the validation set is empty).
TrainEpoch(val_loss) ==
    /\ pc = "train_loop"
    /\ epoch < Epochs
    /\ stopped_epoch = 0
    /\ val_loss \in (IF x_val = << >> THEN {Inf} ELSE Losses)
    /\ val_losses' = Append(val_losses, val_loss)
    /\ epoch' = epoch + 1
    /\ IF Improves(val_loss, best_val_loss)
       THEN /\ best_val_loss' = val_loss
            /\ patience_counter' = 0
            /\ UNCHANGED stopped_epoch
       ELSE /\ patience_counter' = patience_counter + 1
            /\ stopped_epoch' = IF patience_counter + 1 >= EarlyStoppingPatience
                                THEN epoch + 1 ELSE 0
            /\ UNCHANGED best_val_loss
    /\ UNCHANGED <<validation_split, train_data, x_train, x_val, y_train,
                   y_val, artifact>>
    /\ UNCHANGED nonLstmVars
    /\ UNCHANGED <<config_time_steps, op, pc, close, req_time_steps, time_steps,
                   scaler, x_test, inputs, last_sequence, hidden_state,
                   predictions, i, steps, modelCalls, df, error>>

\* Model.save: the parameters of self.model and the attributes of the
\* instance are written; `self_scaler` is the scaler attribute, if any.
Save(self_scaler) == [state_dict |-> "parameters", scaler |-> self_scaler]

\* train, line 159: the loop has ended (break or range exhausted).  The
\* scaler of line 74 is a local of train; the instance has no scaler
\* attribute to save.
TrainEnd ==
    /\ pc = "train_loop"
    /\ epoch >= Epochs \/ stopped_epoch # 0
    /\ pc' = "done"
    /\ artifact' = Save(None)
    /\ UNCHANGED trainLocals
    /\ UNCHANGED nonLstmVars
    /\ UNCHANGED <<config_time_steps, op, close, req_time_steps, time_steps,
                   scaler, x_test, inputs, last_sequence, hidden_state,
                   predictions, i, steps, modelCalls, df, error>>

\* The method has returned or raised; the instance takes the next call.
\* hidden_state keeps the last value inference gave it.
LstmReturn ==
    /\ pc = "done"
    /\ op' = "none" /\ pc' = "idle"
    /\ close' = << >> /\ req_time_steps' = 0 /\ time_steps' = 0
    /\ scaler' = None /\ x_test' = << >> /\ inputs' = << >>
    /\ last_sequence' = << >>
    /\ predictions' = << >> /\ i' = 0 /\ steps' = 0
    /\ modelCalls' = << >> /\ df' = << >> /\ error' = "none"
    /\ validation_split' = <<0, 1>> /\ train_data' = << >>
    /\ x_train' = << >> /\ x_val' = << >> /\ y_train' = << >> /\ y_val' = << >>
    /\ epoch' = 0 /\ best_val_loss' = 0 /\ patience_counter' = 0
    /\ val_losses' = << >> /\ stopped_epoch' = 0
    /\ UNCHANGED <<hidden_state, artifact>>
    /\ UNCHANGED nonLstmVars
    /\ UNCHANGED config_time_steps

InitLstm ==
    /\ config_time_steps \in 1..MaxTimeSteps
    /\ artifact = None
    /\ LstmIdle

NextLstm ==
    \/ \E data \in Tables, tsArg \in TimeStepsArgs :
         \E fitRejects \in (IF Len(data) = 0 THEN BOOLEAN ELSE {FALSE}) :
           InferenceBegin(data, tsArg, fitRejects)
    \/ \E p \in Preds : InferenceStepSingle(p)
    \/ \E p \in Preds : InferenceStepMulti(p)
    \/ InferenceEnd
    \/ \E n \in 0..MaxSteps, data \in Tables : ForecastBegin(n, data)
    \/ \E p \in Preds : ForecastStep(p)
    \/ ForecastEnd
    \/ LstmReturn

\* Calls of train on the instance.
NextTrain ==
    \/ \E data \in TrainTables, split \in ValidationSplits :
         \E fitRejects \in (IF Len(data) = 0 THEN BOOLEAN ELSE {FALSE}) :
           \E loaderRejects \in BOOLEAN :
             TrainBegin(data, split, fitRejects, loaderRejects)
    \/ \E val_loss \in Losses \cup {Inf} : TrainEpoch(val_loss)
    \/ TrainEnd
    \/ LstmReturn


\* ================================================== CoingeckoDataFetcher
MaxTime == 3            \* the clock runs over 0..MaxTime
MaxCacheDuration == 2   \* cache_duration is drawn from 1..MaxCacheDuration

\* COIN_MAPPING, lines 17-28: the supported (upper-case) tickers.
COIN_MAPPING == {"ETH", "BTC", "USDT", "BNB", "USDC", "XRP", "ADA", "DOGE",
                 "SOL", "TRX"}

\* Tickers a caller passes, in several letter cases.
Tickers == {"btc", "BTC", "Eth", "xyz", "XYZ"}

\* str.upper() on the tickers above.
Upper(t) ==
    CASE t = "btc" -> "BTC"
      [] t = "Eth" -> "ETH"
      [] t = "xyz" -> "XYZ"
      [] OTHER     -> t

\* pd.DataFrame(): the empty table.  A fetched table is named by its coin
\* and the time of the request that produced it.
EmptyFrame == [kind |-> "empty", coin |-> "", at |-> 0]
MarketChart(ticker, now) == [kind |-> "ohlcv", coin |-> ticker, at |-> now]

\* What the CoinGecko request can do: a RequestException (no connection,
\* timeout, error status), a body that is not JSON, JSON without prices or
\* volumes, JSON of an unexpected shape, or a full market chart.
CgResponses == {"request_exception", "bad_json", "no_data", "bad_shape", "ok"}

\* Mutant: the supported-ticker check is missing.
FetchRealTimeDataNoCheckBug(cached, last, duration, now, coin_ticker, response) ==
    LET ticker == Upper(coin_ticker)
    IN  IF response = "ok"
        THEN [ret |-> MarketChart(ticker, now), raised |-> "none",
              requested |-> TRUE,
              cached |-> [t \in DOMAIN cached \cup {ticker} |->
                             IF t = ticker THEN MarketChart(ticker, now)
                             ELSE cached[t]],
              last   |-> [t \in DOMAIN last \cup {ticker} |->
                             IF t = ticker THEN now ELSE last[t]]]
        ELSE [ret |-> EmptyFrame, raised |-> "none", requested |-> TRUE,
              cached |-> cached, last |-> last]

\* Mutant: a failed request falls back on the expired cache entry.
FetchRealTimeDataStaleBug(cached, last, duration, now, coin_ticker, response) ==
    LET ticker == Upper(coin_ticker)
    IN  IF ticker \notin COIN_MAPPING
        THEN [ret |-> EmptyFrame, raised |-> "none", requested |-> FALSE,
              cached |-> cached, last |-> last]
        ELSE IF /\ ticker \in DOMAIN cached
                /\ ticker \in DOMAIN last
                /\ now - last[ticker] < duration
        THEN [ret |-> cached[ticker], raised |-> "none", requested |-> FALSE,
              cached |-> cached, last |-> last]
        ELSE IF response = "ok"
        THEN [ret |-> MarketChart(ticker, now), raised |-> "none",
              requested |-> TRUE,
              cached |-> [t \in DOMAIN cached \cup {ticker} |->
                             IF t = ticker THEN MarketChart(ticker, now)
                             ELSE cached[t]],
              last   |-> [t \in DOMAIN last \cup {ticker} |->
                             IF t = ticker THEN now ELSE last[t]]]
        ELSE [ret |-> IF ticker \in DOMAIN cached THEN cached[ticker]
                      ELSE EmptyFrame,
              raised |-> "none", requested |-> TRUE,
              cached |-> cached, last |-> last]

\* Mutant: an entry is still served when its age equals cache_duration.
FetchRealTimeDataInclusiveBug(cached, last, duration, now, coin_ticker, response) ==
    LET ticker == Upper(coin_ticker)
    IN  IF ticker \notin COIN_MAPPING
        THEN [ret |-> EmptyFrame, raised |-> "none", requested |-> FALSE,
              cached |-> cached, last |-> last]
        ELSE IF /\ ticker \in DOMAIN cached
                /\ ticker \in DOMAIN last
                /\ now - last[ticker] <= duration
        THEN [ret |-> cached[ticker], raised |-> "none", requested |-> FALSE,
              cached |-> cached, last |-> last]
        ELSE IF response = "ok"
        THEN [ret |-> MarketChart(ticker, now), raised |-> "none",
              requested |-> TRUE,
              cached |-> [t \in DOMAIN cached \cup {ticker} |->
                             IF t = ticker THEN MarketChart(ticker, now)
                             ELSE cached[t]],
              last   |-> [t \in DOMAIN last \cup {ticker} |->
                             IF t = ticker THEN now ELSE last[t]]]
        ELSE [ret |-> EmptyFrame, raised |-> "none", requested |-> TRUE,
              cached |-> cached, last |-> last]

\* fetch_real_time_data, lines 35-108, as a function of the fetcher's
\* fields, the clock, the argument and the response of the network.
FetchRealTimeData(cached, last, duration, now, coin_ticker, response) ==
    LET ticker == Upper(coin_ticker)
    IN  IF ticker \notin COIN_MAPPING
        THEN [ret |-> EmptyFrame, raised |-> "none", requested |-> FALSE,
              cached |-> cached, last |-> last]
        ELSE IF /\ ticker \in DOMAIN cached
                /\ ticker \in DOMAIN last
                /\ now - last[ticker] < duration
        THEN [ret |-> cached[ticker], raised |-> "none", requested |-> FALSE,
              cached |-> cached, last |-> last]
        ELSE IF response = "ok"
        THEN [ret |-> MarketChart(ticker, now), raised |-> "none",
              requested |-> TRUE,
              cached |-> [t \in DOMAIN cached \cup {ticker} |->
                             IF t = ticker THEN MarketChart(ticker, now)
                             ELSE cached[t]],
              last   |-> [t \in DOMAIN last \cup {ticker} |->
                             IF t = ticker THEN now ELSE last[t]]]
        ELSE [ret |-> EmptyFrame, raised |-> "none", requested |-> TRUE,
              cached |-> cached, last |-> last]

CgIdleCall == [state |-> "idle", ticker |-> "", ret |-> EmptyFrame,
               raised |-> "none", requested |-> FALSE]

\* One call of fetch_real_time_data on the fetcher instance.
CgFetch(coin_ticker, response) ==
    /\ cg_call.state = "idle"
    /\ LET r == FetchRealTimeData(cached_data, last_fetch_time, cache_duration,
                                  cg_now, coin_ticker, response)
       IN  /\ cached_data' = r.cached
           /\ last_fetch_time' = r.last
           /\ cg_call' = [state |-> "returned", ticker |-> coin_ticker,
                          ret |-> r.ret, raised |-> r.raised,
                          requested |-> r.requested]
    /\ UNCHANGED <<cache_duration, cg_now>>
    /\ UNCHANGED <<lstmVars, tgVars, httpVars>>

\* The caller has the result; the fetcher takes the next call.
CgReturn ==
    /\ cg_call.state = "returned"
    /\ cg_call' = CgIdleCall
    /\ UNCHANGED <<cached_data, last_fetch_time, cache_duration, cg_now>>
    /\ UNCHANGED <<lstmVars, tgVars, httpVars>>

\* Time passes between calls.
CgTick ==
    /\ cg_call.state = "idle"
    /\ cg_now < MaxTime
    /\ cg_now' = cg_now + 1
    /\ UNCHANGED <<cached_data, last_fetch_time, cache_duration, cg_call>>
    /\ UNCHANGED <<lstmVars, tgVars, httpVars>>

\* __init__, lines 30-33.
CgConstructed(duration) ==
    /\ cached_data = << >>
    /\ last_fetch_time = << >>
    /\ cache_duration = duration
    /\ cg_now = 0
    /\ cg_call = CgIdleCall

InitCg == \E d \in 1..MaxCacheDuration : CgConstructed(d)

NextCg ==
    \/ \E t \in Tickers, r \in CgResponses : CgFetch(t, r)
    \/ CgReturn
    \/ CgTick

\* ============================================================ DataFetcher
\* Cache files are named by symbol, dates and frequency (_generate_filename,
\* lines 30-34); the dates are fixed here, so a file is named by the pair.
Symbols == {"AAPL", "btcusd"}
Frequencies == {"daily", "5min"}
CacheKeys == Symbols \X Frequencies

\* What the Tiingo request can do: a RequestException raised by
\* requests.get, a status other than 200, a body that is not JSON, the JSON
\* list [], a list whose first entry has no priceData, an entry whose
\* priceData is [], rows with the OHLCV columns, rows lacking a column.
StockResponses == {"request_exception", "http_error", "bad_json", "empty_list",
                   "rows", "bad_rows"}
CryptoResponses == {"request_exception", "http_error", "bad_json", "empty_list",
                    "no_price_data", "empty_price_data", "rows", "bad_rows"}

\* pd.read_csv of a cache file: a file written from the empty table has no
\* columns to parse.
ReadCsv(content) ==
    IF content = "ohlcv"
    THEN [ret |-> "ohlcv", raised |-> "none"]
    ELSE [ret |-> "none", raised |-> "EmptyDataError"]

\* _normalize_tiingo_data, lines 140-156, on the kind of rows it is given.
NormalizeTiingoData(rows) ==
    CASE rows = "empty"    -> [ret |-> "empty", raised |-> "none"]
      [] rows = "rows"     -> [ret |-> "ohlcv", raised |-> "none"]
      [] rows = "bad_rows" -> [ret |-> "none", raised |-> "KeyError"]

\* df.to_csv(filename) when use_cache, lines 75-78 and 133-136.
SaveToCache(files, key, use_cache, table) ==
    IF use_cache
    THEN [k \in DOMAIN files \cup {key} |-> IF k = key THEN table ELSE files[k]]
    ELSE files

TgResult(ret, raised, requested, files) ==
    [ret |-> ret, raised |-> raised, requested |-> requested, files |-> files]

\* The tail shared by both fetches: normalize, save, return.
NormalizeAndSave(files, key, use_cache, rows) ==
    LET n == NormalizeTiingoData(rows)
    IN  IF n.raised # "none"
        THEN TgResult("none", n.raised, TRUE, files)
        ELSE TgResult(n.ret, "none", TRUE, SaveToCache(files, key, use_cache, n.ret))

\* fetch_tiingo_stock_data, lines 36-80.
FetchTiingoStockData(files, key, use_cache, response) ==
    IF use_cache /\ key \in DOMAIN files
    THEN LET c == ReadCsv(files[key])
         IN  TgResult(c.ret, c.raised, FALSE, files)
    ELSE CASE response = "request_exception" ->
                  TgResult("none", "RequestException", TRUE, files)
           [] response = "http_error" ->
                  TgResult("empty", "none", TRUE, files)
           [] response = "bad_json" ->
                  TgResult("none", "JSONDecodeError", TRUE, files)
           [] response = "empty_list" ->
                  NormalizeAndSave(files, key, use_cache, "empty")
           [] response = "rows" ->
                  NormalizeAndSave(files, key, use_cache, "rows")
           [] response = "bad_rows" ->
                  NormalizeAndSave(files, key, use_cache, "bad_rows")

\* fetch_tiingo_crypto_data, lines 82-138.
FetchTiingoCryptoData(files, key, use_cache, response) ==
    IF use_cache /\ key \in DOMAIN files
    THEN LET c == ReadCsv(files[key])
         IN  TgResult(c.ret, c.raised, FALSE, files)
    ELSE CASE response \in {"request_exception", "http_error"} ->
                  TgResult("empty", "none", TRUE, files)
           [] response = "bad_json" ->
                  TgResult("empty", "none", TRUE, files)
           [] response \in {"empty_list", "no_price_data"} ->
                  TgResult("empty", "none", TRUE, files)
           [] response = "empty_price_data" ->
                  NormalizeAndSave(files, key, use_cache, "empty")
           [] response = "rows" ->
                  NormalizeAndSave(files, key, use_cache, "rows")
           [] response = "bad_rows" ->
                  NormalizeAndSave(files, key, use_cache, "bad_rows")

TgIdleCall == [state |-> "idle", fn |-> "", key |-> <<"", "">>,
               use_cache |-> FALSE, ret |-> "none", raised |-> "none",
               requested |-> FALSE]

TgReturned(fn, key, use_cache, r) ==
    [state |-> "returned", fn |-> fn, key |-> key, use_cache |-> use_cache,
     ret |-> r.ret, raised |-> r.raised, requested |-> r.requested]

\* One call of fetch_tiingo_stock_data.
TgFetchStock(key, use_cache, response) ==
    /\ tg_call.state = "idle"
    /\ LET r == FetchTiingoStockData(tg_files, key, use_cache, response)
       IN  /\ tg_files' = r.files
           /\ tg_call' = TgReturned("stock", key, use_cache, r)
    /\ UNCHANGED <<lstmVars, cgVars, httpVars>>

\* One call of fetch_tiingo_crypto_data.
TgFetchCrypto(key, use_cache, response) ==
    /\ tg_call.state = "idle"
    /\ LET r == FetchTiingoCryptoData(tg_files, key, use_cache, response)
       IN  /\ tg_files' = r.files
           /\ tg_call' = TgReturned("crypto", key, use_cache, r)
    /\ UNCHANGED <<lstmVars, cgVars, httpVars>>

\* The caller has the result (or the exception).
TgReturn ==
    /\ tg_call.state = "returned"
    /\ tg_call' = TgIdleCall
    /\ UNCHANGED tg_files
    /\ UNCHANGED <<lstmVars, cgVars, httpVars>>

\* __init__, lines 25-28: the cache folder exists, with no file of ours.
InitTg ==
    /\ tg_files = << >>
    /\ tg_call = TgIdleCall

NextTg ==
    \/ \E k \in CacheKeys, u \in BOOLEAN, r \in StockResponses :
         TgFetchStock(k, u, r)
    \/ \E k \in CacheKeys, u \in BOOLEAN, r \in CryptoResponses :
         TgFetchCrypto(k, u, r)
    \/ TgReturn


\* ========================================================== HTTP service
\* Values of the MODEL and INFER_TOKEN environment variables.
ModelNames == {"lstm", "ghost", "arima"}
InferTokens == {"unset", "ETH", "btcusd"}

\* CoingeckoDataFetcher(cache_duration=60) in get_inference.
GetInferenceCacheDuration == 60

\* Model instances the service constructs in a run, at most.
MaxInstances == 3

\* No model instance (the loader raised, or was not called).
NoModel == [name |-> "none", id |-> 0, save_dir |-> ""]

LoaderIdleCall == [state |-> "idle", name |-> "", model |-> NoModel,
                   raised |-> "none", made_before |-> 0]

\* Mutant: the instance made by the first call is handed out again.
LoadModelFromConfigMemoBug(name, files, made) ==
    IF name = "None"
    THEN [model |-> NoModel, raised |-> "FileNotFoundError", made |-> made]
    ELSE IF name \in files
    THEN [model |-> [name |-> name, id |-> 1,
                     save_dir |-> "package/trained_models"],
          raised |-> "none", made |-> IF made = 0 THEN 1 ELSE made]
    ELSE [model |-> NoModel, raised |-> "FileNotFoundError", made |-> made]

\* load_model_from_config, lines 43-61: the model instance, or the error.
\* `made` counts the instances constructed so far; model_class() makes the
\* next one.  "None" is Python's None.
LoadModelFromConfig(name, files, made) ==
    IF name = "None"
    THEN [model |-> NoModel, raised |-> "FileNotFoundError", made |-> made]
    ELSE IF name \in files
    THEN [model |-> [name |-> name, id |-> made + 1,
                     save_dir |-> "package/trained_models"],
          raised |-> "none", made |-> made + 1]
    ELSE [model |-> NoModel, raised |-> "FileNotFoundError", made |-> made]

\* model.load(): reads the persisted artifact of the model.
ModelLoad(name, arts) ==
    IF name \in arts THEN "none" ELSE "FileNotFoundError"

\* model.inference / model.train on a table: the empty table, and the
\* table built from a whole POST payload (columns topic_id and data), have
\* no datetime index to resample and no close column.
ModelRun(table) ==
    IF table \in {"empty", "payload_frame"} THEN "TypeError" ELSE "none"

\* Mutant: the FileNotFoundError clause is missing.
StatusOfNoNotFoundBug(endpoint, exc) ==
    CASE exc = "none" -> 200
      [] exc = "JSONDecodeError" /\ endpoint # "post_inference" -> 400
      [] OTHER -> 500

\* The except clauses of the handlers, in their order: the GET handlers
\* answer json.JSONDecodeError with 400; all answer FileNotFoundError with
\* 404 and any other exception with 500.
StatusOf(endpoint, exc) ==
    CASE exc = "none" -> 200
      [] exc = "JSONDecodeError" /\ endpoint # "post_inference" -> 400
      [] exc = "FileNotFoundError" -> 404
      [] OTHER -> 500

\* The f-string prefix of the 500 detail of each handler.
DetailPrefix(endpoint) ==
    CASE endpoint = "get_inference"    -> "GetInference error: "
      [] endpoint = "get_update_model" -> "Inference error: "
      [] endpoint = "post_inference"   -> "Post Inference error: "

NoDetail == [prefix |-> "", msg |-> "none"]

\* The detail of the HTTPException; str(e) is written as the exception.
DetailOf(endpoint, exc) ==
    CASE exc = "none" -> NoDetail
      [] exc = "JSONDecodeError" /\ endpoint # "post_inference" ->
             [prefix |-> "", msg |-> "Invalid JSON payload"]
      [] exc = "FileNotFoundError" -> [prefix |-> "", msg |-> exc]
      [] OTHER -> [prefix |-> DetailPrefix(endpoint), msg |-> exc]

\* A JSON field of the POST payload: absent, a falsy value ("0" is the
\* number 0, "empty" is {} or []), a truthy one.
NoPayload == [topic_id |-> "none", data |-> "none"]
Payloads == [topic_id : {"missing", "0", "1"}, data : {"missing", "empty", "rows"}]

HttpIdleCall == [state |-> "idle", endpoint |-> "", payload |-> NoPayload,
                 fetched |-> "none", cache_read |-> FALSE, model |-> NoModel,
                 model_call |-> "none", model_arg |-> "none",
                 exc |-> "none", status |-> 0, detail |-> NoDetail]

HttpResponse(endpoint, payload, fetched, cache_read, model, model_call, model_arg, exc) ==
    [state |-> "responded", endpoint |-> endpoint, payload |-> payload,
     fetched |-> fetched, cache_read |-> cache_read, model |-> model,
     model_call |-> model_call, model_arg |-> model_arg,
     exc |-> exc, status |-> StatusOf(endpoint, exc),
     detail |-> DetailOf(endpoint, exc)]

\* Mutant: the handler uses one fetcher kept by the service.
GetInferenceSharedFetcherBug(coin, response) ==
    /\ http_call.state = "idle"
    /\ instances < MaxInstances
    /\ LET f == FetchRealTimeData(cached_data, last_fetch_time,
                                  GetInferenceCacheDuration, 0, coin, response)
           input_data == f.ret.kind
           hit == f.ret # EmptyFrame /\ ~f.requested
           m == LoadModelFromConfig(active_model, model_files, instances)
       IN  /\ cached_data' = f.cached
           /\ last_fetch_time' = f.last
           /\ IF active_model = "unset"
              THEN /\ http_call' = HttpResponse("get_inference", NoPayload,
                                     input_data, hit, NoModel, "none", "none",
                                     "AttributeError")
                   /\ UNCHANGED instances
              ELSE /\ instances' = m.made
                   /\ http_call' =
                        IF m.raised # "none"
                        THEN HttpResponse("get_inference", NoPayload, input_data,
                                          hit, NoModel, "none", "none", m.raised)
                        ELSE IF ModelLoad(m.model.name, artifacts) # "none"
                        THEN HttpResponse("get_inference", NoPayload, input_data,
                                          hit, m.model, "none", "none",
                                          ModelLoad(m.model.name, artifacts))
                        ELSE HttpResponse("get_inference", NoPayload, input_data,
                                          hit, m.model, "inference", input_data,
                                          ModelRun(input_data))
    /\ UNCHANGED <<active_model, infer_token, model_files, artifacts, loader_call>>
    /\ UNCHANGED <<lstmVars, tgVars, cache_duration, cg_now, cg_call>>

\* GET /inference/{coin}, get_inference lines 14-53.  The handler has no
\* await: it runs from request to response in one step.  Its fetcher is
\* constructed by the request (line 25) and dropped with it.
GetInference(coin, response) ==
    /\ http_call.state = "idle"
    /\ instances < MaxInstances
    /\ LET f == FetchRealTimeData(<< >>, << >>, GetInferenceCacheDuration, 0,
                                  coin, response)
           input_data == f.ret.kind
           hit == f.ret # EmptyFrame /\ ~f.requested
           m == LoadModelFromConfig(active_model, model_files, instances)
       IN  IF active_model = "unset"
           THEN /\ http_call' = HttpResponse("get_inference", NoPayload,
                                  input_data, hit, NoModel, "none", "none",
                                  "AttributeError")
                /\ UNCHANGED instances
           ELSE /\ instances' = m.made
                /\ http_call' =
                     IF m.raised # "none"
                     THEN HttpResponse("get_inference", NoPayload, input_data,
                                       hit, NoModel, "none", "none", m.raised)
                     ELSE IF ModelLoad(m.model.name, artifacts) # "none"
                     THEN HttpResponse("get_inference", NoPayload, input_data,
                                       hit, m.model, "none", "none",
                                       ModelLoad(m.model.name, artifacts))
                     ELSE HttpResponse("get_inference", NoPayload, input_data,
                                       hit, m.model, "inference", input_data,
                                       ModelRun(input_data))
    /\ UNCHANGED <<active_model, infer_token, model_files, artifacts, loader_call>>
    /\ UNCHANGED <<lstmVars, cgVars, tgVars>>

\* get_update_model, lines 39-47: the pair to retrain on.
UpdateModelToken(env) ==
    CASE env = "unset" -> "ethusd"
      [] env = "ETH"   -> "ethusd"
      [] OTHER         -> env

\* GET /update-model, get_update_model lines 17-65.  DataFetcher() is
\* constructed by the request; its cache is the CSV files of cache_folder.
GetUpdateModel(response) ==
    /\ http_call.state = "idle"
    /\ instances < MaxInstances
    /\ LET key == <<UpdateModelToken(infer_token), "1day">>
           f == FetchTiingoCryptoData(tg_files, key, TRUE, response)
           hit == ~f.requested
           m == LoadModelFromConfig(active_model, model_files, instances)
       IN  /\ tg_files' = f.files
           /\ IF f.raised # "none"
              THEN /\ http_call' = HttpResponse("get_update_model", NoPayload,
                                     "none", hit, NoModel, "none", "none",
                                     f.raised)
                   /\ UNCHANGED <<artifacts, instances>>
              ELSE IF active_model = "unset"
              THEN /\ http_call' = HttpResponse("get_update_model", NoPayload,
                                     f.ret, hit, NoModel, "none", "none",
                                     "AttributeError")
                   /\ UNCHANGED <<artifacts, instances>>
              ELSE IF m.raised # "none"
              THEN /\ http_call' = HttpResponse("get_update_model", NoPayload,
                                     f.ret, hit, NoModel, "none", "none",
                                     m.raised)
                   /\ instances' = m.made
                   /\ UNCHANGED artifacts
              ELSE /\ http_call' = HttpResponse("get_update_model", NoPayload,
                                     f.ret, hit, m.model, "train", f.ret,
                                     ModelRun(f.ret))
                   /\ instances' = m.made
                   /\ artifacts' = IF ModelRun(f.ret) = "none"
                                   THEN artifacts \cup {m.model.name}
                                   ELSE artifacts
    /\ UNCHANGED <<active_model, infer_token, model_files, tg_call, loader_call>>
    /\ UNCHANGED <<lstmVars, cgVars>>

\* Mutant: only an absent field is rejected (`is None`).
TruthyPresentBug(v) == v # "missing"

\* `not payload.get(...)`, lines 24-25 and 30-31: an absent field gives
\* None; None, 0 and an empty container are all falsy.
Truthy(v) == v \notin {"missing", "0", "empty"}

\* The 400 answers of perform_inference, raised before its try.
PostRejected(payload, msg) ==
    [state |-> "responded", endpoint |-> "post_inference", payload |-> payload,
     fetched |-> "none", cache_read |-> FALSE, model |-> NoModel,
     model_call |-> "none", model_arg |-> "none",
     exc |-> "none", status |-> 400, detail |-> [prefix |-> "", msg |-> msg]]

\* POST /inference, perform_inference lines 9-51.  The table given to the
\* model is pd.DataFrame(payload), built from the whole payload.
PostInference(payload) ==
    /\ http_call.state = "idle"
    /\ instances < MaxInstances
    /\ LET m == LoadModelFromConfig(active_model, model_files, instances)
           input_data == "payload_frame"
       IN  IF ~Truthy(payload.topic_id)
           THEN /\ http_call' = PostRejected(payload,
                                  "Topic ID is required in the payload.")
                /\ UNCHANGED instances
           ELSE IF ~Truthy(payload.data)
           THEN /\ http_call' = PostRejected(payload,
                                  "Input data is required in the payload.")
                /\ UNCHANGED instances
           ELSE IF active_model = "unset"
           THEN /\ http_call' = HttpResponse("post_inference", payload, "none",
                                  FALSE, NoModel, "none", "none",
                                  "AttributeError")
                /\ UNCHANGED instances
           ELSE /\ instances' = m.made
                /\ http_call' =
                     IF m.raised # "none"
                     THEN HttpResponse("post_inference", payload, "none", FALSE,
                                       NoModel, "none", "none", m.raised)
                     ELSE IF ModelLoad(m.model.name, artifacts) # "none"
                     THEN HttpResponse("post_inference", payload, "none", FALSE,
                                       m.model, "none", "none",
                                       ModelLoad(m.model.name, artifacts))
                     ELSE HttpResponse("post_inference", payload, "none", FALSE,
                                       m.model, "inference", input_data,
                                       ModelRun(input_data))
    /\ UNCHANGED <<active_model, infer_token, model_files, artifacts, loader_call>>
    /\ UNCHANGED <<lstmVars, cgVars, tgVars>>

\* The response is sent; the service takes the next request.
HttpReturn ==
    /\ http_call.state = "responded"
    /\ http_call' = HttpIdleCall
    /\ UNCHANGED <<active_model, infer_token, model_files, artifacts,
                   instances, loader_call>>
    /\ UNCHANGED <<lstmVars, cgVars, tgVars>>

\* lifespan, main.py lines 18-31: active_model is set only when MODEL is.
InitHttp ==
    /\ active_model \in {"unset"} \cup ModelNames
    /\ infer_token \in InferTokens
    /\ model_files = {"lstm"}
    /\ artifacts \in {{}, {"lstm"}}
    /\ http_call = HttpIdleCall
    /\ instances = 0
    /\ loader_call = LoaderIdleCall

NextHttp ==
    \/ \E c \in Tickers, r \in CgResponses : GetInference(c, r)
    \/ \E r \in CryptoResponses : GetUpdateModel(r)
    \/ \E payload \in Payloads : PostInference(payload)
    \/ HttpReturn

\* ------------------------------------------------ load_model_from_config
\* One direct call of load_model_from_config(active_model).
LoadModelCall(name) ==
    /\ loader_call.state = "idle"
    /\ instances < MaxInstances
    /\ LET m == LoadModelFromConfig(name, model_files, instances)
       IN  /\ loader_call' = [state |-> "returned", name |-> name,
                              model |-> m.model, raised |-> m.raised,
                              made_before |-> instances]
           /\ instances' = m.made
    /\ UNCHANGED <<active_model, infer_token, model_files, artifacts, http_call>>
    /\ UNCHANGED <<lstmVars, cgVars, tgVars>>

LoaderReturn ==
    /\ loader_call.state = "returned"
    /\ loader_call' = LoaderIdleCall
    /\ UNCHANGED <<active_model, infer_token, model_files, artifacts, http_call,
                   instances>>
    /\ UNCHANGED <<lstmVars, cgVars, tgVars>>

\* Which package/<name>/model.py files exist.
InitLoader ==
    /\ active_model = "unset" /\ infer_token = "unset"
    /\ model_files \in SUBSET ModelNames
    /\ artifacts = {}
    /\ http_call = HttpIdleCall
    /\ instances = 0
    /\ loader_call = LoaderIdleCall

NextLoader ==
    \/ \E name \in {"None"} \cup ModelNames : LoadModelCall(name)
    \/ LoaderReturn

\* ======================================================== specifications
\* Each component is checked on its own; the others rest in one state.
LstmAtRest == config_time_steps = 1 /\ artifact = None /\ LstmIdle
CgAtRest == CgConstructed(1)
HttpAtRest ==
    /\ active_model = "unset" /\ infer_token = "unset"
    /\ model_files = {} /\ artifacts = {}
    /\ http_call = HttpIdleCall
    /\ instances = 0 /\ loader_call = LoaderIdleCall

InitOfLstm == InitLstm /\ CgAtRest /\ InitTg /\ HttpAtRest
InitOfCoingecko == LstmAtRest /\ InitCg /\ InitTg /\ HttpAtRest
InitOfTiingo == LstmAtRest /\ CgAtRest /\ InitTg /\ HttpAtRest
InitOfHttp == LstmAtRest /\ CgAtRest /\ InitTg /\ InitHttp
InitOfLoader == LstmAtRest /\ CgAtRest /\ InitTg /\ InitLoader

SpecLstm == InitOfLstm /\ [][NextLstm]_vars
SpecTrain == InitOfLstm /\ [][NextTrain]_vars
SpecCoingecko == InitOfCoingecko /\ [][NextCg]_vars
SpecTiingo == InitOfTiingo /\ [][NextTg]_vars
SpecHttp == InitOfHttp /\ [][NextHttp]_vars
SpecLoader == InitOfLoader /\ [][NextLoader]_vars

\* ======================================================= claims: fetchers
\* C8 (as stated): no exception escapes a data-source fetch; a failure
\* gives the empty table.
C8_NoExceptionEscapes ==
    /\ cg_call.raised = "none"
    /\ tg_call.raised = "none"

CgUnsupportedCall(c) ==
    c.state = "returned" /\ Upper(c.ticker) \notin COIN_MAPPING

\* C9: fetch_real_time_data with a ticker that is not a key of COIN_MAPPING
\* after upper-casing returns the empty table, raises nothing, issues no
\* network request and leaves cached_data and last_fetch_time unchanged.
C9_UnsupportedTicker ==
    [][(cg_call.state = "idle" /\ CgUnsupportedCall(cg_call')) =>
          /\ cg_call'.ret = EmptyFrame
          /\ cg_call'.raised = "none"
          /\ cg_call'.requested = FALSE
          /\ cached_data' = cached_data
          /\ last_fetch_time' = last_fetch_time]_vars

C9_Witness ==
    /\ CgUnsupportedCall(cg_call)
    /\ cg_call.ticker = "xyz"
    /\ cg_call.ret = EmptyFrame
    /\ DOMAIN cached_data = {"BTC"}

\* A call of fetch_real_time_data for a supported ticker returns.
CgSupportedCallReturns ==
    /\ cg_call.state = "idle" /\ cg_call'.state = "returned"
    /\ Upper(cg_call'.ticker) \in COIN_MAPPING

\* C25: on one fetcher, once a fetch for ticker T succeeded at time t0,
\* a call for T in any letter case at a time t with t - t0 < cache_duration
\* returns the table of that fetch without a network request, and a call
\* with t - t0 >= cache_duration issues a request; a fetch that succeeds
\* at time t makes t the new t0.
C25_CacheWindow ==
    [][CgSupportedCallReturns =>
          LET T == Upper(cg_call'.ticker)
          IN  /\ T \in DOMAIN last_fetch_time =>
                   LET t0 == last_fetch_time[T]
                   IN  /\ cached_data[T] = MarketChart(T, t0)
                       /\ IF cg_now - t0 < cache_duration
                          THEN /\ ~cg_call'.requested
                               /\ cg_call'.ret = MarketChart(T, t0)
                               /\ last_fetch_time'[T] = t0
                          ELSE cg_call'.requested
              /\ T \notin DOMAIN last_fetch_time => cg_call'.requested
              /\ (cg_call'.requested /\ cg_call'.ret # EmptyFrame) =>
                   /\ cg_call'.ret = MarketChart(T, cg_now)
                   /\ last_fetch_time'[T] = cg_now
                   /\ cached_data'[T] = cg_call'.ret]_vars

\* A call in another letter case was served, later than the fetch but
\* within cache_duration, the table that fetch had produced.
C25_Witness ==
    /\ cg_call.state = "returned" /\ cg_call.ticker = "btc"
    /\ ~cg_call.requested
    /\ cg_call.ret = MarketChart("BTC", 0)
    /\ cg_now > 0

\* The cache dictionaries have the same keys, all upper-case COIN_MAPPING
\* keys.
CgCacheKeysAgree ==
    /\ DOMAIN cached_data = DOMAIN last_fetch_time
    /\ DOMAIN cached_data \subseteq COIN_MAPPING

\* A call whose request was issued and did not produce a market chart.
CgCallFails ==
    /\ CgSupportedCallReturns
    /\ cg_call'.requested
    /\ cg_call'.ret # MarketChart(Upper(cg_call'.ticker), cg_now)

\* C28: a call of fetch_real_time_data that fails (request error, parse
\* error, empty prices or volumes) leaves cached_data and last_fetch_time
\* unchanged and returns the empty table, not a stale cached one; in every
\* reachable state the two dictionaries have the same key set, a subset of
\* the upper-case COIN_MAPPING keys.
C28_FailureKeepsCache ==
    /\ []CgCacheKeysAgree
    /\ [][CgCallFails =>
             /\ cg_call'.ret = EmptyFrame
             /\ cg_call'.raised = "none"
             /\ cached_data' = cached_data
             /\ last_fetch_time' = last_fetch_time]_vars

\* A request for a ticker with an expired cache entry failed and the call
\* returned the empty table.
C28_Witness ==
    /\ cg_call.state = "returned" /\ cg_call.requested
    /\ cg_call.ret = EmptyFrame
    /\ Upper(cg_call.ticker) \in DOMAIN cached_data
    /\ cg_now - last_fetch_time[Upper(cg_call.ticker)] >= cache_duration

\* A call of one of the two Tiingo fetches returns.
TgCallReturns == tg_call.state = "idle" /\ tg_call'.state = "returned"

\* C26 (as stated): with use_cache=True and a cache file present for the
\* arguments, the cached table is returned and no request is issued; with
\* use_cache=False the cache files are neither read nor written, whatever
\* the request does.
C26_CacheFrame ==
    [][TgCallReturns =>
          /\ (tg_call'.use_cache /\ tg_call'.key \in DOMAIN tg_files) =>
                 /\ ~tg_call'.requested
                 /\ tg_call'.raised = "none"
                 /\ tg_call'.ret = tg_files[tg_call'.key]
                 /\ tg_files' = tg_files
          /\ ~tg_call'.use_cache =>
                 /\ tg_call'.requested
                 /\ tg_files' = tg_files]_vars

\* C27 (as stated): a call that returns the empty table leaves no cache
\* file for its arguments unless one existed before; a call with
\* use_cache=True that finds a cache file returns a non-empty OHLCV table
\* and does not raise.
C27_EmptyNotCached ==
    [][TgCallReturns =>
          /\ (tg_call'.raised = "none" /\ tg_call'.ret = "empty") =>
                 (tg_call'.key \in DOMAIN tg_files' =>
                      tg_call'.key \in DOMAIN tg_files)
          /\ (tg_call'.use_cache /\ tg_call'.key \in DOMAIN tg_files) =>
                 /\ tg_call'.raised = "none"
                 /\ tg_call'.ret = "ohlcv"]_vars

\* C10 (as stated): in GET /inference/{coin} and GET /update-model an empty
\* table returned by the fetcher is never passed to model.inference or
\* model.train.
C10_EmptyNeverPassed ==
    http_call.model_call # "none" => http_call.model_arg # "empty"


\* ==================================================== claims: HTTP service
HttpResponded == http_call.state = "responded"

\* C15 (as stated): every request constructs its own model instance and
\* fetcher, and observes no cache entry written by another request.
C15_Original ==
    HttpResponded =>
        /\ http_call.model # NoModel => http_call.model.id = instances
        /\ ~http_call.cache_read

\* C15: every request works on the model instance it constructed itself,
\* and a request that keeps its data in memory (GET /inference/{coin},
\* POST /inference) never answers from a cache; only GET /update-model
\* reads a cache entry, the CSV file on disk.
C15_NoSharedMemory ==
    HttpResponded =>
        /\ http_call.model # NoModel => http_call.model.id = instances
        /\ http_call.endpoint \in {"get_inference", "post_inference"} =>
             ~http_call.cache_read
        /\ http_call.cache_read =>
             /\ http_call.endpoint = "get_update_model"
             /\ <<UpdateModelToken(infer_token), "1day">> \in DOMAIN tg_files

\* A later GET /inference request fetched its table itself and ran the
\* instance it had just constructed.
C15_Witness ==
    /\ HttpResponded /\ http_call.endpoint = "get_inference"
    /\ instances >= 2 /\ http_call.model.id = instances
    /\ http_call.fetched = "ohlcv" /\ ~http_call.cache_read
    /\ http_call.model_call = "inference"

\* C16: in the three model endpoints a FileNotFoundError is answered with
\* 404 and its message as detail, every other exception with 500 and a
\* detail that contains its message; every answer has a status.
C16_ErrorMapping ==
    HttpResponded =>
        /\ http_call.status \in {200, 400, 404, 500}
        /\ http_call.exc = "none" => http_call.status \in {200, 400}
        /\ http_call.exc = "FileNotFoundError" =>
             /\ http_call.status = 404
             /\ http_call.detail = [prefix |-> "", msg |-> http_call.exc]
        /\ http_call.exc \notin {"none", "FileNotFoundError"} =>
             /\ http_call.status = 500
             /\ http_call.detail.msg = http_call.exc

\* model.load() raised FileNotFoundError on a constructed instance.
C16_Witness ==
    /\ HttpResponded /\ http_call.exc = "FileNotFoundError"
    /\ http_call.model # NoModel
    /\ http_call.status = 404

ReachedModelLookup ==
    /\ HttpResponded
    /\ http_call.status # 400
    /\ http_call.exc \notin {"EmptyDataError", "KeyError"}

\* C23: with MODEL unset at startup, the three model endpoints answer 404
\* with the not-found error of the loader, not 500.
C23_UnsetModelIsNotFound ==
    (ReachedModelLookup /\ active_model = "unset") =>
        /\ http_call.status = 404
        /\ http_call.exc = "FileNotFoundError"

\* C24: the table POST /inference passes to model.inference is built from
\* the 'data' field of the payload alone.
C24_PostUsesDataField ==
    (HttpResponded /\ http_call.endpoint = "post_inference"
         /\ http_call.model_call = "inference") =>
        http_call.model_arg = http_call.payload.data

\* ================================== claims: load_model_from_config
\* C17: load_model_from_config raises FileNotFoundError when the name is
\* None or package/<name>/model.py does not exist; otherwise it returns an
\* instance constructed by this call, never one an earlier call returned,
\* with save_dir set to package/trained_models.
C17_LoaderContract ==
    loader_call.state = "returned" =>
        IF loader_call.name = "None" \/ loader_call.name \notin model_files
        THEN /\ loader_call.raised = "FileNotFoundError"
             /\ loader_call.model = NoModel
             /\ instances = loader_call.made_before
        ELSE /\ loader_call.raised = "none"
             /\ loader_call.model.name = loader_call.name
             /\ loader_call.model.save_dir = "package/trained_models"
             /\ loader_call.model.id \notin 1..loader_call.made_before
             /\ instances = loader_call.made_before + 1

\* A second successful call returned its own instance.
C17_Witness ==
    /\ loader_call.state = "returned" /\ loader_call.raised = "none"
    /\ loader_call.made_before >= 1
    /\ loader_call.model.id = loader_call.made_before + 1



\* ====================================================== claims: LstmModel
InRollout == pc \in {"rollout_single", "rollout_multi"}

\* Windowing has run (or should have: a table with rows always reaches it).
C1_Windowed ==
    op = "inference" /\ (InRollout \/ (pc = "done" /\ Len(close) >= 1))

\* C1 (as amended): in inference, with N rows and a requested window length
\* time_steps, N > time_steps gives exactly N - time_steps windows, and
\* N <= time_steps (N = time_steps included) gives exactly one window of
\* length N.
C1_WindowCount ==
    C1_Windowed =>
        /\ Len(close) > req_time_steps =>
               Len(x_test) = Len(close) - req_time_steps
        /\ Len(close) <= req_time_steps =>
               Len(x_test) = 1 /\ Len(x_test[1]) = Len(close)

\* C1 (as stated): N >= time_steps gives N - time_steps windows and
\* N <= time_steps gives one window of length N.
C1_Original ==
    C1_Windowed =>
        /\ Len(close) >= req_time_steps =>
               Len(x_test) = Len(close) - req_time_steps
        /\ Len(close) <= req_time_steps =>
               Len(x_test) = 1 /\ Len(x_test[1]) = Len(close)

C1_Witness ==
    /\ op = "inference" /\ pc = "rollout_multi"
    /\ Len(close) > req_time_steps
    /\ Len(x_test) = Len(close) - req_time_steps
    /\ Len(x_test) >= 2

\* C2 (as stated): in every rollout the first call of the regression
\* function receives no carried state and call k+1 receives the state
\* returned by call k.
C2_HiddenThreaded ==
    \A k \in 1..Len(modelCalls) :
        modelCalls[k].hidden_in =
            IF k = 1 THEN None ELSE modelCalls[k - 1].hidden_out

\* C3: for N >= 1 rows inference returns exactly N predictions: the rollout
\* predictions first, unchanged and in order, then the last rollout
\* prediction repeated.
C3_PadsToInputLength ==
    (op = "inference" /\ pc = "done" /\ Len(close) >= 1) =>
        /\ error = "none"
        /\ Len(predictions) >= 1
        /\ Len(df) = Len(close)
        /\ \A k \in 1..Len(df) :
               df[k].prediction =
                   InverseTransform(scaler,
                                    predictions[Min2(k, Len(predictions))])

C3_Witness ==
    /\ op = "inference" /\ pc = "done" /\ error = "none"
    /\ Len(predictions) >= 2
    /\ predictions[1] # predictions[2]
    /\ Len(predictions) < Len(close)
    /\ Len(df) = Len(close)

\* C4: at every rollout step the next window is the current window without
\* its oldest element and with the new scaled prediction appended; the
\* window length never changes during a rollout.
C4_WindowShift ==
    /\ \A k \in 2..Len(modelCalls) :
           /\ modelCalls[k].window =
                  Append(Tail(modelCalls[k - 1].window), modelCalls[k - 1].out)
           /\ Len(modelCalls[k].window) = Len(modelCalls[1].window)
    /\ (op = "inference" /\ InRollout) =>
           \A j \in (Len(x_test) + 1)..Len(inputs) :
               /\ inputs[j] =
                      Append(Tail(inputs[j - 1]), predictions[j - Len(x_test)])
               /\ Len(inputs[j]) = time_steps
    /\ (op = "forecast" /\ pc = "forecast_loop" /\ modelCalls # << >>) =>
           /\ last_sequence =
                  Append(Tail(Last(modelCalls).window), Last(modelCalls).out)
           /\ Len(last_sequence) = config_time_steps

C4_Witness ==
    /\ op = "inference" /\ InRollout
    /\ Len(modelCalls) >= 2
    /\ Len(modelCalls[1].window) >= 2
    /\ modelCalls[1].window[1] # modelCalls[1].window[2]

\* C5: for every steps >= 0 and every input with at least
\* config.time_steps rows, forecast runs the rollout exactly `steps` times
\* and returns `steps` predictions with `steps` distinct dates, all after
\* the last known date.
C5_ForecastLength ==
    (op = "forecast" /\ pc = "done" /\ Len(close) >= config_time_steps) =>
        /\ error = "none"
        /\ Len(modelCalls) = steps
        /\ Len(predictions) = steps
        /\ Len(df) = steps
        /\ \A k \in 1..Len(df) :
               /\ df[k].date > Last(Dates(close))
               /\ df[k].prediction = predictions[k]
               /\ \A j \in 1..Len(df) : j # k => df[j].date # df[k].date

C5_Witness ==
    /\ op = "forecast" /\ pc = "done" /\ error = "none"
    /\ steps >= 2 /\ Len(df) = steps

\* The scaled output behind row k of the returned table: call k of the
\* rollout, or the last call for a padded row.
ScaledOutputOfRow(k) == modelCalls[Min2(k, Len(modelCalls))].out

\* C6 (as amended): every returned prediction (padded ones included) equals
\* p*(max-min)+min when the close column has max > min, and p+min when the
\* column is constant (max = min); min and max are those of the input close
\* column.
C6_InverseScaling ==
    (pc = "done" /\ error = "none") =>
        \A k \in 1..Len(df) :
            df[k].prediction =
                IF SeqMax(close) > SeqMin(close)
                THEN ScaledOutputOfRow(k) * (SeqMax(close) - SeqMin(close))
                         + SeqMin(close) * Denom
                ELSE ScaledOutputOfRow(k) + SeqMin(close) * Denom

\* C6 (as stated): every returned prediction equals p*(max-min)+min, for
\* every input series.
C6_Original ==
    (pc = "done" /\ error = "none") =>
        \A k \in 1..Len(df) :
            df[k].prediction =
                ScaledOutputOfRow(k) * (SeqMax(close) - SeqMin(close))
                    + SeqMin(close) * Denom

C6_Witness ==
    /\ op = "inference" /\ pc = "done" /\ error = "none"
    /\ SeqMax(close) > SeqMin(close)
    /\ Len(modelCalls) < Len(df)
    /\ \A k \in 1..Len(modelCalls) : modelCalls[k].out = Denom \div 2
    /\ \A k \in 1..Len(df) :
           2 * df[k].prediction = (SeqMax(close) + SeqMin(close)) * Denom

\* C7: when inference has no usable window (a table with zero rows
\* included) it raises; it never returns an empty table and never calls the
\* model on an empty window.
C7_ZeroWindowsRaise ==
    /\ (op = "inference" /\ pc = "done"
            /\ (Len(close) = 0 \/ Len(x_test) = 0)) =>
           /\ error = "ValueError"
           /\ df = << >>
           /\ modelCalls = << >>
    /\ (op = "inference" /\ pc = "done" /\ error = "none") => df # << >>
    /\ op = "inference" =>
           \A k \in 1..Len(modelCalls) : Len(modelCalls[k].window) >= 1

C7_Witness ==
    /\ op = "inference" /\ pc = "done"
    /\ Len(close) = 0
    /\ x_test = << << >> >>
    /\ error = "ValueError"
    /\ modelCalls = << >>

\* The state after k calls of the regression function from no state.
RECURSIVE StateAfter(_)
StateAfter(k) == IF k = 0 THEN None ELSE Forward(StateAfter(k - 1))

\* C14: every rollout of inference and of forecast starts with no carried
\* state, whatever an earlier rollout on the instance left; the state given
\* to step k depends on k only, so equal rollouts receive equal states.
C14_RolloutStartsFresh ==
    /\ (InRollout /\ i = 0) => hidden_state = None
    /\ op = "inference" =>
         \A k \in 1..Len(modelCalls) : modelCalls[k].hidden_in = StateAfter(k - 1)
    /\ op = "forecast" =>
         \A k \in 1..Len(modelCalls) : modelCalls[k].hidden_in = None

\* A forecast rollout has made its first call on an instance whose earlier
\* inference rollout ended with a carried state.
C14_Witness ==
    /\ op = "forecast" /\ modelCalls # << >>
    /\ hidden_state # None
    /\ modelCalls[1].hidden_in = None

\* C19: forecast raises and predicts nothing when the resampled input has
\* fewer than config.time_steps rows; with time_steps rows or more it goes
\* on, and its first window is the last time_steps scaled values, the most
\* recent observation included.
C19_ForecastNeedsTimeSteps ==
    op = "forecast" =>
        LET N      == Len(close)
            ts     == config_time_steps
            scaled == [k \in 1..N |-> Transform(Fit(close), close[k])]
            first  == [j \in 1..ts |-> scaled[N - ts + j]]
        IN  IF N < ts
            THEN /\ pc = "done" /\ error = "ValueError"
                 /\ modelCalls = << >> /\ predictions = << >> /\ df = << >>
            ELSE /\ error = "none"
                 /\ (pc = "forecast_loop" /\ i = 0) => last_sequence = first
                 /\ modelCalls # << >> => modelCalls[1].window = first
                 /\ first[ts] = scaled[N]

\* forecast was given exactly config.time_steps rows and made its first
\* call on all of them.
C19_Witness ==
    /\ op = "forecast" /\ Len(close) = config_time_steps
    /\ config_time_steps = MaxTimeSteps
    /\ close[1] # close[Len(close)]
    /\ modelCalls # << >>
    /\ modelCalls[1].window = FitTransform(close)

\* C20: for N > time_steps scaled values there are N - time_steps windows
\* and the k-th is the contiguous slice of elements k .. k + time_steps - 1
\* in the original order, in inference as in _prepare_data.
C20_WindowsAreSlices ==
    (op = "inference" /\ x_test # << >> /\ Len(close) > time_steps) =>
        LET N      == Len(close)
            scaled == [k \in 1..N |-> Transform(Fit(close), close[k])]
            td     == PrepareData(scaled, time_steps)
        IN  /\ Len(x_test) = N - time_steps
            /\ Len(td) = N - time_steps
            /\ \A k \in 1..(N - time_steps) :
                 /\ Len(x_test[k]) = time_steps
                 /\ Len(td[k]) = time_steps
                 /\ \A j \in 1..time_steps :
                      /\ x_test[k][j] = scaled[k + j - 1]
                      /\ td[k][j] = scaled[k + j - 1]

\* inference windowed a series into two different windows.
C20_Witness ==
    /\ op = "inference" /\ Len(close) > time_steps
    /\ Len(x_test) >= 2
    /\ x_test[1] # x_test[2]

\* C22: for the scaler fitted on an input close column, scaling a value of
\* the fitted range and inverse-scaling the result gives the value back,
\* also when the column is constant (min = max); in particular every
\* scaled value inference put in a window inverse-scales to the close
\* value it came from.
C22_ScalerRoundTrip ==
    (op \in {"inference", "forecast"} /\ scaler # None) =>
        /\ scaler = Fit(close)
        /\ \A x \in scaler.data_min..scaler.data_max :
               InverseTransform(scaler, Transform(scaler, x)) = x * Denom
        /\ \A k \in 1..Len(x_test) : \A j \in 1..Len(x_test[k]) :
               InverseTransform(scaler, x_test[k][j]) = close[k + j - 1] * Denom

\* inference scaled a constant close column of a price above 1 into windows.
C22_Witness ==
    /\ op = "inference" /\ scaler # None
    /\ scaler.data_min = scaler.data_max
    /\ scaler.data_min > 1
    /\ x_test # << >>

\* C29 (as stated): for a series of N >= 1 scaled values and the same
\* time_steps, _prepare_data and the windowing of inference give the same
\* sequence of windows, N <= time_steps included.
C29_SameWindows ==
    (op = "inference" /\ x_test # << >> /\ Len(close) >= 1) =>
        PrepareData(FitTransform(close), req_time_steps) = x_test

\* C30: in inference with N > time_steps rows the regression function is
\* called on the last historical window (elements N - time_steps ..
\* N - 1, counted from 1, which leaves out the most recent value) and then
\* on the self-fed windows derived from it, never on an earlier historical
\* window; row k of the result pairs prediction k with the k-th input date.
C30_OnlyLastWindow ==
    (op = "inference" /\ x_test # << >> /\ Len(close) > time_steps) =>
        LET N      == Len(close)
            scaled == FitTransform(close)
            W      == Len(x_test)
        IN  /\ \A k \in 1..Len(modelCalls) :
                 /\ modelCalls[k].window = inputs[W + k - 1]
                 /\ modelCalls[k].window =
                        IF k = 1
                        THEN SubSeq(scaled, N - time_steps, N - 1)
                        ELSE Append(Tail(modelCalls[k - 1].window),
                                    modelCalls[k - 1].out)
            /\ \A j \in 1..W : inputs[j] = x_test[j]
            /\ (pc = "done" /\ error = "none") =>
                 \A k \in 1..Len(df) :
                     /\ df[k].date = Dates(close)[k]
                     /\ k <= Len(modelCalls) =>
                            df[k].prediction =
                                InverseTransform(scaler, modelCalls[k].out)

\* inference returned after a rollout over several historical windows, the
\* first of which differs from the last.
C30_Witness ==
    /\ op = "inference" /\ pc = "done" /\ error = "none"
    /\ Len(x_test) >= 2
    /\ x_test[1] # Last(x_test)
    /\ Len(modelCalls) >= 2
    /\ modelCalls[1].window = Last(x_test)

\* ================================================== claims: LstmModel.train
\* train has windowed, paired and split its data.
TrainSplitDone == op = "train" /\ train_data # << >>

\* train is in its epoch loop or has left it and saved.
TrainLooping == op = "train" /\ (pc = "train_loop" \/ (pc = "done" /\ error = "none"))

\* The pairs of line 100: every window but the last, with its successor.
TrainPairs == SubSeq(train_data, 1, Len(train_data) - 1)

\* C11: the validation set is exactly the last floor(validation_split * W)
\* of the W window pairs and the training set exactly the earlier ones.
C11_SplitIsLastFloor ==
    TrainSplitDone =>
        LET W == Len(TrainPairs)
            K == (W * validation_split[1]) \div validation_split[2]
        IN  /\ x_val = SubSeq(TrainPairs, W - K + 1, W)
            /\ x_train = SubSeq(TrainPairs, 1, W - K)

\* train has computed the targets of its pairs (line 109-111).
TrainTargetsDone == TrainSplitDone /\ Len(train_data[1]) > 0

\* C21: every training and validation pair has as target the scaled close
\* value that immediately follows its window: the window of elements
\* j .. j + time_steps - 1 is paired with element j + time_steps.
C21_TargetFollowsWindow ==
    TrainTargetsDone =>
        LET scaled == FitTransform(close)
            ts     == config_time_steps
            T      == Len(x_train)
        IN  /\ Len(y_train) = Len(x_train)
            /\ Len(y_val) = Len(x_val)
            /\ \A k \in 1..Len(x_train) :
                 /\ x_train[k] = SubSeq(scaled, k, k + ts - 1)
                 /\ y_train[k] = scaled[k + ts]
            /\ \A k \in 1..Len(x_val) :
                 /\ x_val[k] = SubSeq(scaled, T + k, T + k + ts - 1)
                 /\ y_val[k] = scaled[T + k + ts]

\* train built a training pair and a validation pair whose targets differ
\* from the last element of their windows.
C21_Witness ==
    /\ TrainTargetsDone
    /\ x_train # << >> /\ x_val # << >>
    /\ y_train[1] # Last(x_train[1])
    /\ y_val[1] # Last(x_val[1])

\* The best loss before epoch k, and whether epoch k failed to improve on it.
BestBefore(h, k) == IF k = 1 THEN Inf ELSE SeqMin(<<Inf>> \o SubSeq(h, 1, k - 1))
NonImproving(h, k) == h[k] >= BestBefore(h, k)

\* Number of consecutive non-improving epochs ending with epoch k.
RECURSIVE Run(_, _)
Run(h, k) == IF k = 0 THEN 0
             ELSE IF NonImproving(h, k) THEN 1 + Run(h, k - 1) ELSE 0

\* C12: the patience counter is the number of consecutive epochs without a
\* strict improvement of the validation loss; the loop stops at, and
\* reports, the first epoch where it reaches the patience value, and
\* otherwise runs all the epochs.
C12_EarlyStopping ==
    TrainLooping =>
        LET h == val_losses
        IN  /\ epoch = Len(h) /\ Len(h) <= Epochs
            /\ patience_counter = Run(h, Len(h))
            /\ \A k \in 1..(Len(h) - 1) : Run(h, k) < EarlyStoppingPatience
            /\ stopped_epoch # 0 <=> Run(h, Len(h)) >= EarlyStoppingPatience
            /\ stopped_epoch # 0 => stopped_epoch = Len(h)
            /\ pc = "done" => stopped_epoch # 0 \/ Len(h) = Epochs

\* Training stopped before the last epoch on a loss equal to the best one.
C12_Witness ==
    /\ op = "train" /\ pc = "done" /\ error = "none"
    /\ stopped_epoch # 0 /\ stopped_epoch < Epochs
    /\ val_losses[1] < Inf
    /\ Last(val_losses) = best_val_loss

\* C13: when train completes, the saved artifact holds the trained
\* parameters and the scaler bounds fitted by that run.
C13_ArtifactHasScaler ==
    (op = "train" /\ pc = "done" /\ error = "none") =>
        /\ artifact # None
        /\ artifact.state_dict = "parameters"
        /\ artifact.scaler # None
        /\ artifact.scaler = scaler

====
